---------------------------- MODULE Spec2Model ----------------------------
(***************************************************************************)
(* A model of sway-ir's Function (src/sway-ir/src/function.rs): the block  *)
(* list, the unique label generator and the local variable table of the    *)
(* functions of one Context.  Handles are indices into the arenas of the   *)
(* Context; strings are sequences of one-character strings, so that        *)
(* format!("{hint}{idx}") and the key order of the BTreeMap are computed.  *)
(***************************************************************************)
EXTENDS Integers, Sequences, FiniteSets, TLC

VARIABLES context, last, unhinted_calls, removed, iterator, dot

vars == <<context, last, unhinted_calls, removed, iterator, dot>>

(***************************************************************************)
(* Bounds of the model.                                                    *)
(***************************************************************************)
MaxFunctions == 2
MaxAllBlocks == 3
MaxAllIdx == 1
MaxAllLocalVars == 2
MaxBlocks == 3
MaxLabelIdx == 1
MaxLocalVars == 5
MaxLabelBlocks == 3
MaxLabelDraws == 3
MaxRunBlocks == 3
MaxRunIdx == 13

MaxListBlocks == 4

MaxArgs == 2

MaxCfgBlocks == 2

None == <<"None">>

Some(x) == <<"Some", x>>

(***************************************************************************)
(* Strings.                                                                *)
(***************************************************************************)
Digits == <<"0", "1", "2", "3", "4", "5", "6", "7", "8", "9">>

Alphabet == Digits \o <<"a", "b", "c", "e", "f", "g", "k", "l", "m", "n", "o", "p", "r", "t", "y">>

Ord(c) == CHOOSE i \in 1..Len(Alphabet) : Alphabet[i] = c

RECURSIVE StrLess(_, _)
StrLess(s, t) ==
    IF t = <<>> THEN FALSE
    ELSE IF s = <<>> THEN TRUE
    ELSE IF Head(s) = Head(t) THEN StrLess(Tail(s), Tail(t))
    ELSE Ord(Head(s)) < Ord(Head(t))

RECURSIVE ToDecimal(_)
ToDecimal(n) ==
    IF n < 10 THEN <<Digits[n + 1]>>
    ELSE ToDecimal(n \div 10) \o <<Digits[(n % 10) + 1]>>

Format(s, n) == s \o ToDecimal(n)

str_entry == <<"e", "n", "t", "r", "y">>
str_block == <<"b", "l", "o", "c", "k">>
str_tmp == <<"t", "m", "p">>

FunctionNames == [i \in 1..MaxFunctions |-> Format(<<"f">>, i)]
ArgNames == [i \in 1..MaxArgs |-> Format(<<"a">>, i)]
Hints == {None, str_entry}
LabelHints == {None, str_entry, Format(str_entry, 0)}
RunHints == {None, Format(str_block, 1)}
LocalNames == {str_tmp, Format(str_tmp, 0)}
Types == {"u64"}

ReplaceMaps == {<<>>, (1 :> 2), (1 :> 2) @@ (2 :> 1)}

ReplacePairs == {<<1, 2>>, <<2, 2>>}

(***************************************************************************)
(* The Context: the arenas, and the function list of the module.  A block  *)
(* of the arena also records the hint Block::new was given;                *)
(* unhinted_calls and removed are history: the number of unhinted calls of *)
(* get_unique_label by the caller, per function, and the blocks that       *)
(* remove_block has taken out of a list.  iterator is the FunctionIterator  *)
(* of the caller, dot the run of dot_cfg.                                  *)
(***************************************************************************)
Functions == 1..Len(context.functions)
Blocks == 1..Len(context.blocks)
LocalVars == 1..Len(context.local_vars)

Range(s) == {s[i] : i \in 1..Len(s)}

Position(s, x) ==
    IF x \in Range(s) THEN CHOOSE i \in 1..Len(s) : s[i] = x /\ \A j \in 1..(i - 1) : s[j] # x
    ELSE 0

InsertAt(s, i, x) == SubSeq(s, 1, i - 1) \o <<x>> \o SubSeq(s, i, Len(s))

RemoveAt(s, i) == SubSeq(s, 1, i - 1) \o SubSeq(s, i + 1, Len(s))

Labels(ctx, f) == {ctx.blocks[b].label : b \in Range(ctx.functions[f].blocks)}

Call(op, ok, val) == [op |-> op, ok |-> ok, val |-> val]

(***************************************************************************)
(* get_unique_label and get_next_label_idx: the label and the counter      *)
(* after the draws.                                                        *)
(***************************************************************************)
UniqueLabelOnce(labels, hint, idx) ==
    IF hint \in labels THEN [label |-> Format(hint, idx), next_label_idx |-> idx + 1]
    ELSE [label |-> hint, next_label_idx |-> idx]

RECURSIVE UniqueLabel(_, _, _)
UniqueLabel(labels, hint, idx) ==
    IF hint \in labels THEN UniqueLabel(labels, Format(hint, idx), idx + 1)
    ELSE [label |-> hint, next_label_idx |-> idx]

GetUniqueLabelStale(ctx, f, hint) ==
    LET idx == ctx.functions[f].next_label_idx
    IN  IF hint = None THEN UniqueLabel(Labels(ctx, f), Format(str_block, idx), idx)
        ELSE UniqueLabel(Labels(ctx, f), hint, idx)

GetUniqueLabel(ctx, f, hint) ==
    LET idx == ctx.functions[f].next_label_idx
    IN  IF hint = None THEN UniqueLabel(Labels(ctx, f), Format(str_block, idx), idx + 1)
        ELSE UniqueLabel(Labels(ctx, f), hint, idx)

(***************************************************************************)
(* Block::new: the block is labelled by get_unique_label of its function   *)
(* and stored in the arena; it is in no block list yet.                    *)
(***************************************************************************)
BlockNew(ctx, f, hint) ==
    LET u == GetUniqueLabel(ctx, f, hint)
    IN  [ctx EXCEPT !.functions[f].next_label_idx = u.next_label_idx,
                    !.blocks = Append(@, [label |-> u.label, function |-> f,
                                          args |-> <<>>, hint |-> hint])]

(***************************************************************************)
(* Function::new                                                           *)
(***************************************************************************)
FunctionNew(ctx, name, nargs) ==
    LET func == Len(ctx.functions) + 1
        content == [name |-> name, arguments |-> <<>>, blocks |-> <<>>,
                    local_storage |-> <<>>, next_label_idx |-> 0]
        c1 == [ctx EXCEPT !.functions = Append(@, content),
                          !.module_functions = Append(@, func)]
        c2 == BlockNew(c1, func, str_entry)
        entry_block == Len(c2.blocks)
        c3 == [c2 EXCEPT !.functions[func].blocks = Append(@, entry_block)]
        base == Len(c3.values)
        arguments == [i \in 1..nargs |-> <<ArgNames[i], base + i>>]
    IN  [c3 EXCEPT !.values = @ \o [i \in 1..nargs |-> [block |-> entry_block, idx |-> i - 1]],
                   !.functions[func].arguments = arguments,
                   !.blocks[entry_block].args = [i \in 1..nargs |-> arguments[i][2]]]

Function_new(name, nargs) ==
    /\ context' = FunctionNew(context, name, nargs)
    /\ last' = Call("Function::new", TRUE, Len(context.functions) + 1)
    /\ UNCHANGED <<iterator, dot>>
    /\ unhinted_calls' = Append(unhinted_calls, 0)
    /\ UNCHANGED removed

(***************************************************************************)
(* Block list management.                                                  *)
(***************************************************************************)
create_block(f, label) ==
    LET c1 == BlockNew(context, f, label)
        block == Len(c1.blocks)
    IN  /\ context' = [c1 EXCEPT !.functions[f].blocks = Append(@, block)]
        /\ last' = Call("create_block", TRUE, block)
        /\ UNCHANGED <<iterator, dot>>
        /\ UNCHANGED <<unhinted_calls, removed>>

CreateBlockBeforePush(ctx, f, other, label) ==
    LET c1 == BlockNew(ctx, f, label)
        new_block == Len(c1.blocks)
        c2 == [c1 EXCEPT !.functions[f].blocks = Append(@, new_block)]
        idx == Position(c1.functions[f].blocks, other)
    IN  IF idx # 0
        THEN [ctx |-> [c1 EXCEPT !.functions[f].blocks = InsertAt(@, idx, new_block)],
              ok |-> TRUE, val |-> new_block]
        ELSE [ctx |-> c2, ok |-> FALSE,
              val |-> [err |-> "MissingBlock", label |-> c1.blocks[other].label]]

CreateBlockBefore(ctx, f, other, label) ==
    LET c1 == BlockNew(ctx, f, label)
        new_block == Len(c1.blocks)
        idx == Position(c1.functions[f].blocks, other)
    IN  IF idx # 0
        THEN [ctx |-> [c1 EXCEPT !.functions[f].blocks = InsertAt(@, idx, new_block)],
              ok |-> TRUE, val |-> new_block]
        ELSE [ctx |-> c1, ok |-> FALSE,
              val |-> [err |-> "MissingBlock", label |-> c1.blocks[other].label]]

create_block_before(f, other, label) ==
    LET r == CreateBlockBefore(context, f, other, label)
    IN  /\ context' = r.ctx
        /\ last' = Call("create_block_before", r.ok, r.val)
        /\ UNCHANGED <<iterator, dot>>
        /\ UNCHANGED <<unhinted_calls, removed>>

CreateBlockAfterAtAnchor(ctx, f, other, label) ==
    LET new_block == Len(ctx.blocks) + 1
        c1 == BlockNew(ctx, f, label)
        idx == Position(ctx.functions[f].blocks, other)
    IN  IF idx = 0
        THEN [ctx |-> c1, ok |-> FALSE,
              val |-> [err |-> "MissingBlock", label |-> ctx.blocks[other].label]]
        ELSE [ctx |-> [c1 EXCEPT !.functions[f].blocks = InsertAt(@, idx, new_block)],
              ok |-> TRUE, val |-> new_block]

CreateBlockAfterAnchorAgain(ctx, f, other, label) ==
    LET c1 == BlockNew(ctx, f, label)
        new_block == Len(c1.blocks)
        idx == Position(c1.functions[f].blocks, other)
    IN  IF idx # 0
        THEN [ctx |-> [c1 EXCEPT !.functions[f].blocks = InsertAt(@, idx + 1, other)],
              ok |-> TRUE, val |-> new_block]
        ELSE [ctx |-> c1, ok |-> FALSE,
              val |-> [err |-> "MissingBlock", label |-> c1.blocks[other].label]]

CreateBlockAfter(ctx, f, other, label) ==
    LET c1 == BlockNew(ctx, f, label)
        new_block == Len(c1.blocks)
        idx == Position(c1.functions[f].blocks, other)
    IN  IF idx # 0
        THEN [ctx |-> [c1 EXCEPT !.functions[f].blocks = InsertAt(@, idx + 1, new_block)],
              ok |-> TRUE, val |-> new_block]
        ELSE [ctx |-> c1, ok |-> FALSE,
              val |-> [err |-> "MissingBlock", label |-> c1.blocks[other].label]]

create_block_after(f, other, label) ==
    LET r == CreateBlockAfter(context, f, other, label)
    IN  /\ context' = r.ctx
        /\ last' = Call("create_block_after", r.ok, r.val)
        /\ UNCHANGED <<iterator, dot>>
        /\ UNCHANGED <<unhinted_calls, removed>>

RemoveBlockSwap(ctx, f, block) ==
    LET label == ctx.blocks[block].label
        blocks == ctx.functions[f].blocks
        block_idx == Position(blocks, block)
    IN  IF block_idx = 0
        THEN [ctx |-> ctx, ok |-> FALSE,
              val |-> [err |-> "RemoveMissingBlock", label |-> label]]
        ELSE [ctx |-> [ctx EXCEPT !.functions[f].blocks =
                          IF block_idx = Len(blocks)
                          THEN RemoveAt(blocks, block_idx)
                          ELSE RemoveAt([blocks EXCEPT ![block_idx] = blocks[Len(blocks)]],
                                        Len(blocks))],
              ok |-> TRUE, val |-> None]

RemoveBlockRewind(ctx, f, block) ==
    LET label == ctx.blocks[block].label
        block_idx == Position(ctx.functions[f].blocks, block)
    IN  IF block_idx = 0
        THEN [ctx |-> ctx, ok |-> FALSE,
              val |-> [err |-> "RemoveMissingBlock", label |-> label]]
        ELSE [ctx |-> [ctx EXCEPT !.functions[f].blocks = RemoveAt(@, block_idx),
                                  !.functions[f].next_label_idx = IF @ > 0 THEN @ - 1 ELSE 0],
              ok |-> TRUE, val |-> None]

RemoveBlock(ctx, f, block) ==
    LET label == ctx.blocks[block].label
        block_idx == Position(ctx.functions[f].blocks, block)
    IN  IF block_idx = 0
        THEN [ctx |-> ctx, ok |-> FALSE,
              val |-> [err |-> "RemoveMissingBlock", label |-> label]]
        ELSE [ctx |-> [ctx EXCEPT !.functions[f].blocks = RemoveAt(@, block_idx)],
              ok |-> TRUE, val |-> None]

remove_block(f, block) ==
    LET r == RemoveBlock(context, f, block)
    IN  /\ context' = r.ctx
        /\ last' = Call("remove_block", r.ok, r.val)
        /\ UNCHANGED <<iterator, dot>>
        /\ UNCHANGED unhinted_calls
        /\ removed' = IF r.ok THEN removed \cup {block} ELSE removed

get_unique_label(f, hint) ==
    LET u == GetUniqueLabel(context, f, hint)
    IN  /\ context' = [context EXCEPT !.functions[f].next_label_idx = u.next_label_idx]
        /\ last' = Call("get_unique_label", TRUE, u.label)
        /\ UNCHANGED <<iterator, dot>>
        /\ unhinted_calls' = [unhinted_calls EXCEPT ![f] = IF hint = None THEN @ + 1 ELSE @]
        /\ UNCHANGED removed

(***************************************************************************)
(* replace_values and replace_value.  Block::replace_values rewrites the   *)
(* instructions of one block; the result recorded for a call is the        *)
(* sequence of blocks it was applied to, each with the map it was given.   *)
(***************************************************************************)
BlockIter(ctx, f) == ctx.functions[f].blocks

RECURSIVE SkipUntil(_, _)
SkipUntil(block_iter, starting_block) ==
    IF block_iter # <<>> /\ Head(block_iter) # starting_block
    THEN SkipUntil(Tail(block_iter), starting_block)
    ELSE block_iter

Applied(blocks, replace_map) ==
    [i \in 1..Len(blocks) |-> [block |-> blocks[i], replace_map |-> replace_map]]

ReplaceValuesPastStart(ctx, f, replace_map, starting_block) ==
    LET block_iter == BlockIter(ctx, f)
        rest == IF starting_block = None THEN block_iter
                ELSE SkipUntil(block_iter, starting_block[2])
    IN  [ctx |-> ctx, ok |-> TRUE,
         val |-> Applied(IF starting_block = None \/ rest = <<>> THEN rest ELSE Tail(rest),
                         replace_map)]

ReplaceValuesOrAll(ctx, f, replace_map, starting_block) ==
    LET block_iter == BlockIter(ctx, f)
        rest == IF starting_block = None THEN block_iter
                ELSE SkipUntil(block_iter, starting_block[2])
    IN  [ctx |-> ctx, ok |-> TRUE,
         val |-> Applied(IF rest = <<>> THEN block_iter ELSE rest, replace_map)]

ReplaceValues(ctx, f, replace_map, starting_block) ==
    LET block_iter == BlockIter(ctx, f)
        rest == IF starting_block = None THEN block_iter
                ELSE SkipUntil(block_iter, starting_block[2])
    IN  [ctx |-> ctx, ok |-> TRUE, val |-> Applied(rest, replace_map)]

replace_values(f, replace_map, starting_block) ==
    LET r == ReplaceValues(context, f, replace_map, starting_block)
    IN  /\ context' = r.ctx
        /\ last' = Call("replace_values", r.ok, r.val)
        /\ UNCHANGED <<unhinted_calls, removed, iterator, dot>>

ReplaceValue(ctx, f, old_val, new_val, starting_block) ==
    LET map == (old_val :> new_val)
    IN  ReplaceValues(ctx, f, map, starting_block)

replace_value(f, old_val, new_val, starting_block) ==
    LET r == ReplaceValue(context, f, old_val, new_val, starting_block)
    IN  /\ context' = r.ctx
        /\ last' = Call("replace_value", r.ok, r.val)
        /\ UNCHANGED <<unhinted_calls, removed, iterator, dot>>

Insert(map, key, value) ==
    [k \in DOMAIN map \cup {key} |-> IF k = key THEN value ELSE map[k]]

RECURSIVE SortedKeys(_)
SortedKeys(keys) ==
    IF keys = {} THEN <<>>
    ELSE LET least == CHOOSE k \in keys : \A o \in keys \ {k} : StrLess(k, o)
         IN  <<least>> \o SortedKeys(keys \ {least})

GetLocalVar(ctx, f, name) ==
    LET local_storage == ctx.functions[f].local_storage
    IN  IF name \in DOMAIN local_storage THEN Some(local_storage[name]) ELSE None

RECURSIVE FindName(_, _, _)
FindName(local_storage, names, var) ==
    IF names = <<>> THEN None
    ELSE IF local_storage[Head(names)] = var THEN Some(Head(names))
    ELSE FindName(local_storage, Tail(names), var)

LookupLocalName(ctx, f, var) ==
    LET local_storage == ctx.functions[f].local_storage
    IN  FindName(local_storage, SortedKeys(DOMAIN local_storage), var)

(***************************************************************************)
(* The local variable table: a BTreeMap from names to LocalVar handles.    *)
(***************************************************************************)
LocalVarNew(ctx, local_type, initializer) ==
    [ctx EXCEPT !.local_vars = Append(@, [ty |-> local_type, initializer |-> initializer])]

NewLocalVarInterned(ctx, f, name, local_type, initializer) ==
    LET content == [ty |-> local_type, initializer |-> initializer]
        same == {v \in 1..Len(ctx.local_vars) : ctx.local_vars[v] = content}
        c1 == IF same = {} THEN LocalVarNew(ctx, local_type, initializer) ELSE ctx
        var == IF same = {} THEN Len(c1.local_vars) ELSE CHOOSE v \in same : TRUE
        func == c1.functions[f]
    IN  [ctx |-> [c1 EXCEPT !.functions[f].local_storage = Insert(@, name, var)],
         ok |-> name \notin DOMAIN func.local_storage,
         val |-> IF name \in DOMAIN func.local_storage
                 THEN [err |-> "FunctionLocalClobbered", function |-> func.name, name |-> name]
                 ELSE var]

NewLocalVar(ctx, f, name, local_type, initializer) ==
    LET c1 == LocalVarNew(ctx, local_type, initializer)
        var == Len(c1.local_vars)
        func == c1.functions[f]
    IN  [ctx |-> [c1 EXCEPT !.functions[f].local_storage = Insert(@, name, var)],
         ok |-> name \notin DOMAIN func.local_storage,
         val |-> IF name \in DOMAIN func.local_storage
                 THEN [err |-> "FunctionLocalClobbered", function |-> func.name, name |-> name]
                 ELSE var]

new_local_var(f, name, local_type, initializer) ==
    LET r == NewLocalVar(context, f, name, local_type, initializer)
    IN  /\ context' = r.ctx
        /\ last' = Call("new_local_var", r.ok, r.val)
        /\ UNCHANGED <<iterator, dot>>
        /\ UNCHANGED <<unhinted_calls, removed>>

RECURSIVE FindCandidate(_, _, _)
FindCandidate(local_storage, name, n) ==
    LET candidate == Format(name, n)
    IN  IF candidate \in DOMAIN local_storage THEN FindCandidate(local_storage, name, n + 1)
        ELSE candidate

NewNameFirstSuffix(local_storage, name) ==
    IF name \in DOMAIN local_storage THEN Format(name, 0) ELSE name

NewName(local_storage, name) ==
    IF name \in DOMAIN local_storage THEN FindCandidate(local_storage, name, 0) ELSE name

NewUniqueLocalVar(ctx, f, name, local_type, initializer) ==
    LET new_name == NewName(ctx.functions[f].local_storage, name)
        r == NewLocalVar(ctx, f, new_name, local_type, initializer)
    IN  IF r.ok THEN r ELSE [ctx |-> r.ctx, ok |-> FALSE, val |-> "panic"]

new_unique_local_var(f, name, local_type, initializer) ==
    LET r == NewUniqueLocalVar(context, f, name, local_type, initializer)
    IN  /\ context' = r.ctx
        /\ last' = Call("new_unique_local_var", r.ok, r.val)
        /\ UNCHANGED <<iterator, dot>>
        /\ UNCHANGED <<unhinted_calls, removed>>

RECURSIVE MergeLoopSwapped(_, _, _, _)
MergeLoopSwapped(ctx, f, old_vars, var_map) ==
    IF old_vars = <<>> THEN [ctx |-> ctx, ok |-> TRUE, val |-> var_map]
    ELSE LET old == Head(old_vars)
             r == NewUniqueLocalVar(ctx, f, old.name, old.content.ty, old.content.initializer)
         IN  IF r.ok
             THEN MergeLoopSwapped(r.ctx, f, Tail(old_vars), Insert(var_map, r.val, old.var))
             ELSE r

RECURSIVE MergeLoopClobber(_, _, _, _)
MergeLoopClobber(ctx, f, old_vars, var_map) ==
    IF old_vars = <<>> THEN [ctx |-> ctx, ok |-> TRUE, val |-> var_map]
    ELSE LET old == Head(old_vars)
             r == NewLocalVar(ctx, f, old.name, old.content.ty, old.content.initializer)
             var == Len(r.ctx.local_vars)
         IN  MergeLoopClobber(r.ctx, f, Tail(old_vars), Insert(var_map, old.var, var))

RECURSIVE MergeLoop(_, _, _, _)
MergeLoop(ctx, f, old_vars, var_map) ==
    IF old_vars = <<>> THEN [ctx |-> ctx, ok |-> TRUE, val |-> var_map]
    ELSE LET old == Head(old_vars)
             r == NewUniqueLocalVar(ctx, f, old.name, old.content.ty, old.content.initializer)
         IN  IF r.ok THEN MergeLoop(r.ctx, f, Tail(old_vars), Insert(var_map, old.var, r.val))
             ELSE r

MergeLocalsFrom(ctx, f, other) ==
    LET storage == ctx.functions[other].local_storage
        names == SortedKeys(DOMAIN storage)
        old_vars == [i \in 1..Len(names) |->
                        [name |-> names[i], var |-> storage[names[i]],
                         content |-> ctx.local_vars[storage[names[i]]]]]
    IN  MergeLoop(ctx, f, old_vars, <<>>)

merge_locals_from(f, other) ==
    LET r == MergeLocalsFrom(context, f, other)
    IN  /\ context' = r.ctx
        /\ last' = Call("merge_locals_from", r.ok, r.val)
        /\ UNCHANGED <<iterator, dot>>
        /\ UNCHANGED <<unhinted_calls, removed>>

(***************************************************************************)
(* FunctionIterator.  The iterator variable holds the struct (self) and,   *)
(* as history, the module's functions at its creation (registered) and     *)
(* what next has yielded since (yielded, ended).                           *)
(***************************************************************************)
FunctionIteratorNew(ctx) == [functions |-> ctx.module_functions, next |-> 0]

FunctionIteratorNextShort(self) ==
    IF self.next + 1 < Len(self.functions)
    THEN [self |-> [self EXCEPT !.next = @ + 1], val |-> Some(self.functions[self.next + 1])]
    ELSE [self |-> self, val |-> None]

FunctionIteratorNext(self) ==
    IF self.next < Len(self.functions)
    THEN [self |-> [self EXCEPT !.next = @ + 1], val |-> Some(self.functions[self.next + 1])]
    ELSE [self |-> self, val |-> None]

FunctionIterator_new ==
    /\ iterator' = [created |-> TRUE, self |-> FunctionIteratorNew(context),
                    registered |-> context.module_functions, yielded |-> <<>>,
                    ended |-> FALSE]
    /\ last' = Call("FunctionIterator::new", TRUE, None)
    /\ UNCHANGED <<context, unhinted_calls, removed, dot>>

FunctionIterator_next ==
    LET r == FunctionIteratorNext(iterator.self)
    IN  /\ iterator.created
        /\ iterator' = [iterator EXCEPT !.self = r.self,
                                        !.yielded = IF r.val = None THEN @ ELSE Append(@, r.val[2]),
                                        !.ended = @ \/ r.val = None]
        /\ last' = Call("FunctionIterator::next", TRUE, r.val)
        /\ UNCHANGED <<context, unhinted_calls, removed, dot>>

(***************************************************************************)
(* dot_cfg.  The dot variable holds the locals of a call: the work list    *)
(* (a Vec used as a stack), the visited set and the output so far, a       *)
(* sequence of lines; successors is what Block::successors reports for     *)
(* each block.  One step of DotCfgLoop is one turn of the while loop.  A   *)
(* run is followed while its output has at most                            *)
(* DotOutputCap lines.                                                     *)
(***************************************************************************)
DotOutputCap == 4 * MaxCfgBlocks * MaxCfgBlocks

GetEntryBlock(ctx, f) == ctx.functions[f].blocks[1]

Edge(ctx, n, n_succ) == [from |-> ctx.blocks[n].label, to |-> ctx.blocks[n_succ].label]

Unvisited(succs, visited) ==
    LET NotVisited(b) == b \notin visited
    IN  SelectSeq(succs, NotVisited)

DotCfgLoopPushAll(ctx, d) ==
    LET n == d.worklist[Len(d.worklist)]
        visited == d.visited \cup {n}
        succs == d.successors[n]
    IN  [d EXCEPT !.worklist = SubSeq(d.worklist, 1, Len(d.worklist) - 1) \o succs,
                  !.visited = visited,
                  !.res = @ \o [i \in 1..Len(succs) |-> Edge(ctx, n, succs[i])]]

DotCfgLoop(ctx, d) ==
    LET n == d.worklist[Len(d.worklist)]
        visited == d.visited \cup {n}
        succs == d.successors[n]
    IN  [d EXCEPT !.worklist = SubSeq(d.worklist, 1, Len(d.worklist) - 1)
                                  \o Unvisited(succs, visited),
                  !.visited = visited,
                  !.res = @ \o [i \in 1..Len(succs) |-> Edge(ctx, n, succs[i])]]

dot_cfg_call(f) ==
    /\ dot.pc = "idle"
    /\ dot' = [dot EXCEPT !.pc = "loop",
                          !.worklist = <<GetEntryBlock(context, f)>>,
                          !.visited = {},
                          !.res = <<[digraph |-> context.functions[f].name]>>]
    /\ UNCHANGED <<context, last, unhinted_calls, removed, iterator>>

dot_cfg_loop ==
    /\ dot.pc = "loop"
    /\ dot.worklist # <<>>
    /\ Len(dot.res) <= DotOutputCap
    /\ dot' = DotCfgLoop(context, dot)
    /\ UNCHANGED <<context, last, unhinted_calls, removed, iterator>>

dot_cfg_return ==
    /\ dot.pc = "loop"
    /\ dot.worklist = <<>>
    /\ dot' = [dot EXCEPT !.pc = "done"]
    /\ last' = Call("dot_cfg", TRUE, dot.res)
    /\ UNCHANGED <<context, unhinted_calls, removed, iterator>>

(***************************************************************************)
(* The specifications.  Spec runs every operation from the empty Context,   *)
(* on the first function of the module.                                    *)
(* The operations of the block list and of the local variable table share  *)
(* no state, so SpecBlocks and SpecLocals run each group alone on two      *)
(* constructed functions; SpecLabels runs the block operations on one      *)
(* function with more hints, and SpecRun follows the label counter of one  *)
(* function over a longer life of appended and removed blocks.             *)
(***************************************************************************)
NoIterator ==
    [created |-> FALSE, self |-> [functions |-> <<>>, next |-> 0],
     registered |-> <<>>, yielded |-> <<>>, ended |-> FALSE]

NoDot == [pc |-> "idle", successors |-> <<>>, worklist |-> <<>>, visited |-> {}, res |-> <<>>]

EmptyContext ==
    [functions |-> <<>>, blocks |-> <<>>, local_vars |-> <<>>,
     values |-> <<>>, module_functions |-> <<>>]

Init ==
    /\ context = EmptyContext
    /\ last = Call("Context::new", TRUE, None)
    /\ unhinted_calls = <<>>
    /\ removed = {}
    /\ iterator = NoIterator
    /\ dot = NoDot

InitOne ==
    /\ context = FunctionNew(EmptyContext, FunctionNames[1], 0)
    /\ last = Call("Function::new", TRUE, 1)
    /\ unhinted_calls = <<0>>
    /\ removed = {}
    /\ iterator = NoIterator
    /\ dot = NoDot

InitTwo ==
    /\ context = FunctionNew(FunctionNew(EmptyContext, FunctionNames[1], 0), FunctionNames[2], 0)
    /\ last = Call("Function::new", TRUE, 2)
    /\ unhinted_calls = <<0, 0>>
    /\ removed = {}
    /\ iterator = NoIterator
    /\ dot = NoDot

RECURSIVE CfgContext(_)
CfgContext(n) ==
    IF n <= 1 THEN FunctionNew(EmptyContext, FunctionNames[1], 0)
    ELSE LET c1 == BlockNew(CfgContext(n - 1), 1, None)
         IN  [c1 EXCEPT !.functions[1].blocks = Append(@, Len(c1.blocks))]

SuccessorLists ==
    {<<>>} \cup {<<a>> : a \in 1..MaxCfgBlocks}
           \cup {<<a, b>> : a \in 1..MaxCfgBlocks, b \in 1..MaxCfgBlocks}

InitCfg ==
    /\ context = CfgContext(MaxCfgBlocks)
    /\ last = Call("Function::new", TRUE, 1)
    /\ unhinted_calls = <<0>>
    /\ removed = {}
    /\ iterator = NoIterator
    /\ dot \in {[NoDot EXCEPT !.successors = s] : s \in [1..MaxCfgBlocks -> SuccessorLists]}

CanDraw(f, hint, maxIdx) == GetUniqueLabel(context, f, hint).next_label_idx <= maxIdx

NewFunction ==
    /\ context.functions = <<>>
    /\ Function_new(FunctionNames[Len(context.functions) + 1], 0)

BlockOps(hints, maxBlocks, maxIdx) ==
    \/ \E f \in Functions, hint \in hints :
          /\ Len(context.blocks) < maxBlocks
          /\ CanDraw(f, hint, maxIdx)
          /\ create_block(f, hint)
    \/ \E f \in Functions, other \in Blocks, hint \in hints :
          /\ Len(context.blocks) < maxBlocks
          /\ CanDraw(f, hint, maxIdx)
          /\ create_block_before(f, other, hint)
    \/ \E f \in Functions, other \in Blocks, hint \in hints :
          /\ Len(context.blocks) < maxBlocks
          /\ CanDraw(f, hint, maxIdx)
          /\ create_block_after(f, other, hint)
    \/ \E f \in Functions, b \in Blocks : remove_block(f, b)
    \/ \E f \in Functions, hint \in hints :
          /\ CanDraw(f, hint, maxIdx)
          /\ get_unique_label(f, hint)

LocalOps(maxVars) ==
    \/ \E f \in Functions, name \in LocalNames, ty \in Types :
          /\ Len(context.local_vars) < maxVars
          /\ new_local_var(f, name, ty, None)
    \/ \E f \in Functions, name \in LocalNames, ty \in Types :
          /\ Len(context.local_vars) < maxVars
          /\ new_unique_local_var(f, name, ty, None)
    \/ \E f \in Functions, other \in Functions :
          /\ Len(context.local_vars) + Cardinality(DOMAIN context.functions[other].local_storage)
                <= maxVars
          /\ merge_locals_from(f, other)

Next ==
    \/ NewFunction
    \/ BlockOps(Hints, MaxAllBlocks, MaxAllIdx)
    \/ LocalOps(MaxAllLocalVars)

NextBlocks == BlockOps(Hints, MaxBlocks, MaxLabelIdx)

NextLocals == LocalOps(MaxLocalVars)

NextLabels == BlockOps(LabelHints, MaxLabelBlocks, MaxLabelDraws)

NextRun ==
    \/ \E f \in Functions, hint \in RunHints :
          /\ Len(context.blocks) < MaxRunBlocks
          /\ CanDraw(f, hint, MaxRunIdx)
          /\ create_block(f, hint)
    \/ \E f \in Functions, b \in Blocks : remove_block(f, b)
    \/ \E f \in Functions :
          /\ CanDraw(f, None, MaxRunIdx)
          /\ get_unique_label(f, None)

StartingBlocks == {None} \cup {Some(b) : b \in Blocks}

ReplaceOps ==
    \/ \E f \in Functions, replace_map \in ReplaceMaps, starting_block \in StartingBlocks :
          replace_values(f, replace_map, starting_block)
    \/ \E f \in Functions, pair \in ReplacePairs, starting_block \in StartingBlocks :
          replace_value(f, pair[1], pair[2], starting_block)

NextList ==
    \/ \E f \in Functions :
          /\ Len(context.blocks) < MaxListBlocks
          /\ create_block(f, None)
    \/ \E f \in Functions, other \in Blocks :
          /\ Len(context.blocks) < MaxListBlocks
          /\ create_block_before(f, other, None)
    \/ \E f \in Functions, other \in Blocks :
          /\ Len(context.blocks) < MaxListBlocks
          /\ create_block_after(f, other, None)
    \/ \E f \in Functions, b \in Blocks : remove_block(f, b)
    \/ ReplaceOps

NewFunctionWithArgs ==
    \E nargs \in 0..MaxArgs :
       /\ Len(context.functions) < MaxFunctions
       /\ Function_new(FunctionNames[Len(context.functions) + 1], nargs)

NextArgs ==
    \/ NewFunctionWithArgs
    \/ NextList

NextIter ==
    \/ NewFunctionWithArgs
    \/ FunctionIterator_new
    \/ FunctionIterator_next

NextCfg ==
    \/ \E f \in Functions : dot_cfg_call(f)
    \/ dot_cfg_loop
    \/ dot_cfg_return

Spec == Init /\ [][Next]_vars

SpecBlocks == InitTwo /\ [][NextBlocks]_vars

SpecLocals == InitTwo /\ [][NextLocals]_vars

SpecLabels == InitOne /\ [][NextLabels]_vars

SpecRun == InitOne /\ [][NextRun]_vars

SpecList == InitOne /\ [][NextList]_vars

SpecArgs == Init /\ [][NextArgs]_vars

SpecIter == Init /\ [][NextIter]_vars

SpecCfg == InitCfg /\ [][NextCfg]_vars /\ WF_vars(NextCfg)

(***************************************************************************)
(* Properties of the block list and of the label generator.                *)
(***************************************************************************)
BlockList(f) == context.functions[f].blocks

EntryBlock(f) ==
    CHOOSE b \in Blocks :
        /\ context.blocks[b].function = f
        /\ \A o \in 1..(b - 1) : context.blocks[o].function # f

IsPrefix(p, s) == Len(p) <= Len(s) /\ SubSeq(s, 1, Len(p)) = p

\* C2: blocks[0] of every function is the block Function::new created as its
\* entry block, whatever block operations were called (stated here for the
\* functions whose entry block is still in the list).
C2_EntryBlockIsFirst ==
    \A f \in Functions :
        EntryBlock(f) \in Range(BlockList(f)) => BlockList(f)[1] = EntryBlock(f)

\* C3: the block list of a constructed function is never empty.
C3_BlocksNonEmpty == \A f \in Functions : BlockList(f) # <<>>

\* C4: the label get_unique_label returns, for any hint, is the label of no
\* block in the function's block list.
C4_LabelIsUnique ==
    [][\A f \in Functions, hint \in LabelHints :
          (last'.op = "get_unique_label" /\ get_unique_label(f, hint))
          => last'.val \notin Labels(context', f)]_vars

C4_Witness ==
    /\ last.op = "get_unique_label"
    /\ last.val = Format(Format(str_entry, 0), 1)
    /\ \E f \in Functions : {str_entry, Format(str_entry, 0)} \subseteq Labels(context, f)

\* C5: once a block whose label an unhinted Block::new generated has been
\* removed, no unhinted get_unique_label returns that label again.
RetiredLabels(f) ==
    {context.blocks[b].label :
        b \in {r \in removed : context.blocks[r].function = f /\ context.blocks[r].hint = None}}

C5_NeverReissued ==
    [][\A f \in Functions :
          (last'.op = "get_unique_label" /\ get_unique_label(f, None))
          => last'.val \notin RetiredLabels(f)]_vars

\* C6 as stated: on a function none of whose blocks ever carried a generated
\* name, the unhinted calls return block0, block1, ... in that order: the
\* call after i earlier ones returns block{i}.
C6_StartsAtZero ==
    [][\A f \in Functions :
          (/\ last'.op = "get_unique_label"
           /\ get_unique_label(f, None)
           /\ \A b \in Blocks : context.blocks[b].function = f
                                   => ~IsPrefix(str_block, context.blocks[b].label))
          => last'.val = Format(str_block, unhinted_calls[f])]_vars

\* C6 amended: an unhinted call on a function whose counter stands at k and
\* which holds no block labelled block{k} returns block{k} and leaves the
\* counter at k + 1, so N such calls in a row return block{k} .. block{k+N-1}.
C6_StartsAtCounter ==
    [][\A f \in Functions :
          LET k == context.functions[f].next_label_idx
          IN  (/\ last'.op = "get_unique_label"
               /\ get_unique_label(f, None)
               /\ Format(str_block, k) \notin Labels(context, f))
              => /\ last'.val = Format(str_block, k)
                 /\ context'.functions[f].next_label_idx = k + 1]_vars

C6_Witness ==
    /\ last.op = "get_unique_label"
    /\ last.val = Format(str_block, 2)
    /\ \E f \in Functions :
          /\ unhinted_calls[f] = 2
          /\ context.functions[f].next_label_idx = 3
          /\ \E b \in Blocks :
                /\ context.blocks[b].function = f
                /\ context.blocks[b].hint = str_entry
                /\ context.blocks[b].label = Format(str_entry, 0)

\* C10: create_block_before and create_block_after with an anchor that is not
\* in the function's block list return MissingBlock with the anchor's label
\* and change the block list of no function.
C10_MissingAnchor ==
    [][\A f \in Functions, other \in Blocks, hint \in Hints :
          (/\ other \notin Range(BlockList(f))
           /\ last'.op \in {"create_block_before", "create_block_after"}
           /\ create_block_before(f, other, hint) \/ create_block_after(f, other, hint))
          => /\ ~last'.ok
             /\ last'.val = [err |-> "MissingBlock", label |-> context.blocks[other].label]
             /\ \A g \in Functions :
                   context'.functions[g].blocks = context.functions[g].blocks]_vars

C10_Witness ==
    /\ last.op = "create_block_before"
    /\ ~last.ok
    /\ last.val = [err |-> "MissingBlock", label |-> str_entry]
    /\ removed = {}
    /\ \A f \in Functions : BlockList(f) = <<EntryBlock(f)>>

Without(s, x) ==
    LET Other(y) == y # x
    IN  SelectSeq(s, Other)

\* C11: remove_block on a block that is in the function's list takes exactly
\* that block out and keeps the other blocks in their order; on a block that
\* is not in the list it returns RemoveMissingBlock with the block's label
\* and leaves the list unchanged.
C11_RemoveBlock ==
    [][\A f \in Functions, b \in Blocks :
          (last'.op = "remove_block" /\ remove_block(f, b))
          => IF b \in Range(BlockList(f))
             THEN /\ last'.ok
                  /\ context'.functions[f].blocks = Without(BlockList(f), b)
                  /\ Len(context'.functions[f].blocks) = Len(BlockList(f)) - 1
             ELSE /\ ~last'.ok
                  /\ last'.val = [err |-> "RemoveMissingBlock",
                                  label |-> context.blocks[b].label]
                  /\ context'.functions[f].blocks = BlockList(f)]_vars

C11_Witness ==
    /\ last.op = "remove_block"
    /\ last.ok
    /\ removed = {2}
    /\ BlockList(1) = <<1, 3, 4>>

ArgValues(f) == [i \in 1..Len(context.functions[f].arguments) |-> context.functions[f].arguments[i][2]]

\* C12: in every state, for every function with a block list, the parameter
\* list of its entry block (get_entry_block, blocks[0]) is the list of the
\* function's argument values, and the i-th of them carries index i.
C12_ArgsAreEntryParams ==
    \A f \in Functions :
        BlockList(f) # <<>> =>
            /\ context.blocks[BlockList(f)[1]].args = ArgValues(f)
            /\ \A i \in 1..Len(ArgValues(f)) :
                  context.values[ArgValues(f)[i]] = [block |-> BlockList(f)[1], idx |-> i - 1]

\* C14: create_block_before puts the new block at the index the anchor had
\* and create_block_after at the anchor's index plus one; create_block puts
\* it last.  In all three the list grows by one and the blocks that were in
\* it keep their order.
C14_Placement ==
    [][\A f \in Functions :
          LET old == BlockList(f)
              new == context'.functions[f].blocks
              block == Len(context.blocks) + 1
              Kept == /\ Len(new) = Len(old) + 1
                      /\ Without(new, block) = old
          IN  /\ (last'.op = "create_block" /\ create_block(f, None))
                 => Kept /\ new[Len(new)] = block /\ last'.val = block
              /\ \A other \in Range(old) :
                    LET p == Position(old, other)
                    IN  /\ (last'.op = "create_block_before" /\ create_block_before(f, other, None))
                           => Kept /\ new[p] = block /\ new[p + 1] = other /\ last'.val = block
                        /\ (last'.op = "create_block_after" /\ create_block_after(f, other, None))
                           => Kept /\ new[p] = other /\ new[p + 1] = block /\ last'.val = block]_vars

C14_Witness ==
    /\ last = Call("create_block_after", TRUE, 4)
    /\ BlockList(1) = <<1, 2, 4, 3>>

NextLabelIdx(ctx, f) == ctx.functions[f].next_label_idx

RECURSIVE Drawn(_, _)
Drawn(from, to) == IF from >= to THEN <<>> ELSE ToDecimal(from) \o Drawn(from + 1, to)

\* C15: the label counter of a function is 0 when Function::new returns and
\* never decreases; a step that generates a label raises it by one for each
\* index it drew (the label is the hint, or "block", followed by the decimal
\* forms of exactly the indices between the old and the new counter), and
\* every other operation leaves it unchanged.
C15_CounterMonotonic ==
    [][/\ \A f \in Functions :
             /\ NextLabelIdx(context', f) >= NextLabelIdx(context, f)
             /\ last'.op \notin {"create_block", "create_block_before", "create_block_after",
                                 "get_unique_label"}
                   => NextLabelIdx(context', f) = NextLabelIdx(context, f)
             /\ \A hint \in Hints :
                   (last'.op = "get_unique_label" /\ get_unique_label(f, hint))
                   => last'.val = (IF hint = None THEN str_block ELSE hint)
                                     \o Drawn(NextLabelIdx(context, f), NextLabelIdx(context', f))
             /\ \A hint \in Hints :
                   (last'.op = "create_block" /\ create_block(f, hint))
                   => context'.blocks[last'.val].label
                         = (IF hint = None THEN str_block ELSE hint)
                              \o Drawn(NextLabelIdx(context, f), NextLabelIdx(context', f))
       /\ last'.op = "Function::new" => NextLabelIdx(context', last'.val) = 0]_vars

C15_Witness ==
    /\ last.op = "remove_block"
    /\ last.ok
    /\ \E f \in Functions : NextLabelIdx(context, f) = 1 /\ BlockList(f) = <<>>
    /\ \E f \in Functions : context.functions[f].local_storage # <<>>

\* C16: replace_values and replace_value with a starting block that is at
\* index p of the block list apply the map to exactly the blocks at indices
\* p and above, in list order, and to none below p; with no starting block
\* they apply it to every block of the list.
C16_FromStartingBlock ==
    [][\A f \in Functions, starting_block \in StartingBlocks :
          LET blocks == BlockList(f)
              p == IF starting_block = None THEN 1 ELSE Position(blocks, starting_block[2])
              Expected(map) == [i \in 1..(Len(blocks) - p + 1) |->
                                   [block |-> blocks[p + i - 1], replace_map |-> map]]
          IN  p # 0 =>
                /\ \A replace_map \in ReplaceMaps :
                      (last'.op = "replace_values" /\ replace_values(f, replace_map, starting_block))
                      => last'.val = Expected(replace_map) /\ context' = context
                /\ \A pair \in ReplacePairs :
                      (last'.op = "replace_value"
                       /\ replace_value(f, pair[1], pair[2], starting_block))
                      => last'.val = Expected(pair[1] :> pair[2]) /\ context' = context]_vars

C16_Witness ==
    /\ last.op = "replace_values"
    /\ BlockList(1) = <<3, 1, 4>>
    /\ last.val = <<[block |-> 1, replace_map |-> (1 :> 2)],
                    [block |-> 4, replace_map |-> (1 :> 2)]>>

\* C17: replace_values and replace_value with a starting block that is not
\* in the function's block list apply the map to no block, change nothing
\* and report no error.
C17_AbsentStartingBlock ==
    [][\A f \in Functions, b \in Blocks :
          b \notin Range(BlockList(f)) =>
             /\ \A replace_map \in ReplaceMaps :
                   (last'.op = "replace_values" /\ replace_values(f, replace_map, Some(b)))
                   => last'.val = <<>> /\ last'.ok /\ context' = context
             /\ \A pair \in ReplacePairs :
                   (last'.op = "replace_value" /\ replace_value(f, pair[1], pair[2], Some(b)))
                   => last'.val = <<>> /\ last'.ok /\ context' = context]_vars

C17_Witness ==
    /\ last = Call("replace_values", TRUE, <<>>)
    /\ removed = {2}
    /\ BlockList(1) = <<1, 3>>

\* C20: in every state no block list holds a handle twice and no handle is
\* in the lists of two functions; so a block that remove_block has taken
\* out of a list is in no list, right after the call and ever after.
C20_HandlesUnique ==
    /\ \A f \in Functions :
          \A i \in 1..Len(BlockList(f)), j \in 1..Len(BlockList(f)) :
             BlockList(f)[i] = BlockList(f)[j] => i = j
    /\ \A f \in Functions, g \in Functions :
          f # g => Range(BlockList(f)) \cap Range(BlockList(g)) = {}
    /\ \A b \in removed : \A f \in Functions : b \notin Range(BlockList(f))

C20_Witness ==
    /\ last.op = "remove_block"
    /\ last.ok
    /\ removed = {1}
    /\ BlockList(1) = <<3>>
    /\ BlockList(2) = <<2>>

(***************************************************************************)
(* Properties of the local variable table.                                 *)
(***************************************************************************)
LocalStorage(f) == context.functions[f].local_storage

Handles(map) == {map[k] : k \in DOMAIN map}

\* C1: new_local_var with a name that is already a key returns
\* FunctionLocalClobbered with the function's name and the local's name, and
\* leaves the table as it was.
C1_ClobberLeavesTable ==
    [][\A f \in Functions, name \in LocalNames, ty \in Types :
          (/\ name \in DOMAIN LocalStorage(f)
           /\ last'.op = "new_local_var"
           /\ new_local_var(f, name, ty, None))
          => /\ ~last'.ok
             /\ last'.val = [err |-> "FunctionLocalClobbered",
                             function |-> context.functions[f].name, name |-> name]
             /\ context'.functions[f].local_storage = LocalStorage(f)]_vars

\* C7: new_unique_local_var never fails; it stores the new local under the
\* name if it is free, else under name+n for the least n >= 0 with name+n
\* free, and adds exactly that one entry.
LeastFree(names, name) ==
    CHOOSE n \in 0..Cardinality(names) :
        /\ Format(name, n) \notin names
        /\ \A m \in 0..(n - 1) : Format(name, m) \in names

C7_UniqueLocalVar ==
    [][\A f \in Functions, name \in LocalNames, ty \in Types :
          (last'.op = "new_unique_local_var" /\ new_unique_local_var(f, name, ty, None))
          => LET old == LocalStorage(f)
                 new == context'.functions[f].local_storage
                 stored == IF name \in DOMAIN old
                           THEN Format(name, LeastFree(DOMAIN old, name)) ELSE name
             IN  /\ last'.ok
                 /\ stored \notin DOMAIN old
                 /\ DOMAIN new = DOMAIN old \cup {stored}
                 /\ new[stored] = last'.val
                 /\ last'.val = Len(context.local_vars) + 1
                 /\ \A k \in DOMAIN old : new[k] = old[k]]_vars

C7_Witness ==
    /\ last.op = "new_unique_local_var"
    /\ last.ok
    /\ \E f \in Functions :
          /\ {str_tmp, Format(str_tmp, 0), Format(str_tmp, 1)} \subseteq DOMAIN LocalStorage(f)
          /\ LocalStorage(f)[Format(str_tmp, 1)] = last.val

\* C8: merge_locals_from returns an injective mapping whose domain is the set
\* of handles of the other function's table at the call and whose targets are
\* in this function's table after it; merging one local tmp into a table
\* holding one local tmp gives tmp and tmp0, and the mapping other.tmp -> tmp0.
C8_MergeMapping ==
    [][\A f \in Functions, other \in Functions :
          (last'.op = "merge_locals_from" /\ merge_locals_from(f, other))
          => LET merged == LocalStorage(other)
                 old == LocalStorage(f)
                 new == context'.functions[f].local_storage
                 var_map == last'.val
             IN  /\ last'.ok
                 /\ DOMAIN var_map = Handles(merged)
                 /\ \A a, b \in DOMAIN var_map : var_map[a] = var_map[b] => a = b
                 /\ \A a \in DOMAIN var_map : var_map[a] \in Handles(new)
                 /\ (f # other /\ DOMAIN old = {str_tmp} /\ DOMAIN merged = {str_tmp})
                    => /\ DOMAIN new = {str_tmp, Format(str_tmp, 0)}
                       /\ new[str_tmp] = old[str_tmp]
                       /\ DOMAIN var_map = {merged[str_tmp]}
                       /\ var_map[merged[str_tmp]] = new[Format(str_tmp, 0)]]_vars

C8_Witness ==
    /\ last.op = "merge_locals_from"
    /\ last.ok
    /\ \E f \in Functions, other \in Functions :
          /\ f # other
          /\ DOMAIN LocalStorage(other) = {str_tmp}
          /\ DOMAIN LocalStorage(f) = {str_tmp, Format(str_tmp, 0)}
          /\ DOMAIN last.val = {LocalStorage(other)[str_tmp]}
          /\ last.val[LocalStorage(other)[str_tmp]] = LocalStorage(f)[Format(str_tmp, 0)]

\* C9: merge_locals_from leaves every entry this function's table held
\* before, and the table grows by the number of locals of the other function.
C9_MergeFrame ==
    [][\A f \in Functions, other \in Functions :
          (last'.op = "merge_locals_from" /\ merge_locals_from(f, other))
          => LET merged == LocalStorage(other)
                 old == LocalStorage(f)
                 new == context'.functions[f].local_storage
             IN  /\ \A k \in DOMAIN old : k \in DOMAIN new /\ new[k] = old[k]
                 /\ Cardinality(DOMAIN new)
                       = Cardinality(DOMAIN old) + Cardinality(DOMAIN merged)]_vars

C9_Witness ==
    /\ last.op = "merge_locals_from"
    /\ Cardinality(DOMAIN last.val) = 2
    /\ \E f \in Functions, other \in Functions :
          /\ f # other
          /\ DOMAIN LocalStorage(other) = {str_tmp, Format(str_tmp, 0)}
          /\ DOMAIN LocalStorage(f)
                = {str_tmp, Format(str_tmp, 0), Format(Format(str_tmp, 0), 0)}
          /\ last.val[LocalStorage(other)[Format(str_tmp, 0)]]
                = LocalStorage(f)[Format(Format(str_tmp, 0), 0)]

\* C19: in every state the local table of every function maps distinct
\* names to distinct handles, and get_local_var and lookup_local_name are
\* inverse to each other on it: the handle found for a name of the table
\* is looked up to that name, and the name found for a handle is mapped to
\* that handle; a handle outside the table has no name.
C19_LocalTableInjective ==
    \A f \in Functions :
        LET names == DOMAIN LocalStorage(f)
        IN  /\ \A n \in names, m \in names : LocalStorage(f)[n] = LocalStorage(f)[m] => n = m
            /\ \A n \in names :
                  /\ GetLocalVar(context, f, n) # None
                  /\ LookupLocalName(context, f, GetLocalVar(context, f, n)[2]) = Some(n)
            /\ \A var \in LocalVars :
                  IF var \in Handles(LocalStorage(f))
                  THEN /\ LookupLocalName(context, f, var) # None
                       /\ GetLocalVar(context, f, LookupLocalName(context, f, var)[2]) = Some(var)
                  ELSE LookupLocalName(context, f, var) = None

C19_Witness ==
    /\ last.op = "new_local_var"
    /\ ~last.ok
    /\ \E f \in Functions :
          /\ Cardinality(DOMAIN LocalStorage(f)) = 2
          /\ \E var \in LocalVars : var \notin Handles(LocalStorage(f))
    /\ \A f \in Functions : LocalStorage(f) # <<>>

(***************************************************************************)
(* Properties of FunctionIterator.                                         *)
(***************************************************************************)
\* C13: what a FunctionIterator has yielded is always a prefix of the list
\* of functions registered in the module when it was created, it has ended
\* only after yielding that whole list, and a next that returns a function
\* returns one of that list; functions added later are never yielded.
C13_YieldsSnapshot ==
    iterator.created =>
        /\ IsPrefix(iterator.yielded, iterator.registered)
        /\ iterator.ended => iterator.yielded = iterator.registered
        /\ (last.op = "FunctionIterator::next" /\ last.val # None)
              => /\ iterator.yielded # <<>>
                 /\ last.val = Some(iterator.yielded[Len(iterator.yielded)])
                 /\ ~iterator.ended

C13_Witness ==
    /\ iterator.ended
    /\ iterator.yielded = <<1>>
    /\ context.module_functions = <<1, 2>>
    /\ last.op = "FunctionIterator::next"

(***************************************************************************)
(* Properties of dot_cfg.                                                  *)
(***************************************************************************)
\* C18: every call of dot_cfg returns: once the loop is entered, the work
\* list eventually is empty and the call is done, whatever the successors
\* of the blocks are (cycles, self-loops, repeated edges).
C18_Terminates == (dot.pc = "loop") ~> (dot.pc = "done" /\ dot.worklist = <<>>)

C18_Witness ==
    /\ dot.pc = "done"
    /\ dot.successors = <<(<<2, 2>>), (<<2, 1>>)>>
    /\ dot.visited = {1, 2}

=============================================================================
